---- MODULE Spec2Model ----
(***************************************************************************)
(* RedisStore (src/src/RedisStore.ts): a namespaced byte store over an     *)
(* ioredis client.  Strings (keys, namespaces, glob patterns) are sequences *)
(* of one-character strings; values are sequences of bytes 0..255; a JS    *)
(* string returned by the client is a sequence of UTF-16 code units.       *)
(***************************************************************************)
EXTENDS Integers, Sequences, FiniteSets, TLC

\* ------------------------------------------------------------ strings ----

\* String.prototype.startsWith
StartsWith(s, p) ==
    /\ Len(p) <= Len(s)
    /\ SubSeq(s, 1, Len(p)) = p

\* String.prototype.substring(n): what follows the first n characters
Substring(s, n) == SubSeq(s, n + 1, Len(s))

\* Elements of a sequence
Range(f) == { f[i] : i \in DOMAIN f }

\* The separator between namespace and logical key
Sep == <<":">>

\* this.namespace ? ... : ...   (a non-empty string is truthy)
Truthy(str) == str # <<>>

\* A faulty _prefixKey that forgets the namespace
PrefixKeyNoNamespace(ns, key) == key

\* _prefixKey
PrefixKey(ns, key) ==
    IF Truthy(ns) THEN ns \o Sep \o key ELSE key

\* Faulty strippings: one that keeps the ':', one that strips every key
StripKeyOffByOne(ns, key) ==
    IF Truthy(ns) /\ StartsWith(key, ns \o Sep)
    THEN Substring(key, Len(ns))
    ELSE key

StripKeyAlways(ns, key) == Substring(key, Len(ns) + 1)

\* The body of yieldKeys' for loop: what is yielded for one scanned key
StripKey(ns, key) ==
    IF Truthy(ns) /\ StartsWith(key, ns \o Sep)
    THEN Substring(key, Len(ns) + 1)
    ELSE key

\* ------------------------------------------------------------- codecs ----

\* Buffer.from(value) on a Uint8Array: a copy, each element taken mod 256
BufferFromBytes(value) == [ i \in 1..Len(value) |-> value[i] % 256 ]

IsCont(b) == b >= 128 /\ b <= 191

\* Code point -> UTF-16 code units
Utf16(cp) ==
    IF cp < 65536 THEN << cp >>
    ELSE << 55296 + ((cp - 65536) \div 1024), 56320 + ((cp - 65536) % 1024) >>

\* Lowest and highest second byte allowed after lead byte b1 (WHATWG UTF-8)
SecondLo(b1) == IF b1 = 224 THEN 160 ELSE IF b1 = 240 THEN 144 ELSE 128
SecondHi(b1) == IF b1 = 237 THEN 159 ELSE IF b1 = 244 THEN 143 ELSE 191

\* The client's string reply: the stored bytes decoded as UTF-8, every
\* maximal ill-formed subpart replaced by U+FFFD (65533).
RECURSIVE Utf8Decode(_)
Utf8Decode(b) ==
    IF b = <<>> THEN <<>>
    ELSE LET b1   == b[1]
             n    == Len(b)
             rest(k) == Utf8Decode(SubSeq(b, k + 1, n))
             ok2  == n >= 2 /\ b[2] >= SecondLo(b1) /\ b[2] <= SecondHi(b1)
         IN  IF b1 < 128 THEN << b1 >> \o rest(1)
             ELSE IF b1 >= 194 /\ b1 <= 223 THEN
                 IF n >= 2 /\ IsCont(b[2])
                 THEN << (b1 - 192) * 64 + (b[2] - 128) >> \o rest(2)
                 ELSE << 65533 >> \o rest(1)
             ELSE IF b1 >= 224 /\ b1 <= 239 THEN
                 IF ~ok2 THEN << 65533 >> \o rest(1)
                 ELSE IF n >= 3 /\ IsCont(b[3])
                 THEN Utf16((b1 - 224) * 4096 + (b[2] - 128) * 64 + (b[3] - 128))
                      \o rest(3)
                 ELSE << 65533 >> \o rest(2)
             ELSE IF b1 >= 240 /\ b1 <= 244 THEN
                 IF ~ok2 THEN << 65533 >> \o rest(1)
                 ELSE IF ~(n >= 3 /\ IsCont(b[3])) THEN << 65533 >> \o rest(2)
                 ELSE IF ~(n >= 4 /\ IsCont(b[4])) THEN << 65533 >> \o rest(3)
                 ELSE Utf16((b1 - 240) * 262144 + (b[2] - 128) * 4096
                            + (b[3] - 128) * 64 + (b[4] - 128)) \o rest(4)
             ELSE << 65533 >> \o rest(1)

\* Buffer.from(str, "binary"): latin1, the low byte of every code unit
Latin1Encode(str) == [ i \in 1..Len(str) |-> str[i] % 256 ]

\* ----------------------------------------------------- optional values ----

\* null / undefined, and a present value v (possibly of length zero)
Absent == <<>>
Some(v) == << v >>

\* -------------------------------------------------------------- state ----

Stores == { "s1", "s2" }

VARIABLES
    namespace,  \* this.namespace of every store
    ttl,        \* this.ttl of every store: <<>> is null, <<n>> the number n
    db,         \* the backend: physical key -> [val, ex, by, lk, arg]; by, lk
                \* and arg are history fields: the store, the logical key and
                \* the value of the mset pair whose SET wrote the entry
    gone,       \* history: the physical keys that the last mset or mdelete
                \* to reach the backend removed from it
    last,       \* the last call: its arguments, outcome and backend requests
    gen,        \* the yieldKeys generator objects
    client,     \* this.client of every store: a handle, or "none" while the
                \* store is not constructed
    conn,       \* every handle's connection: "none" (not made), "open", "closed"
    built,      \* history: the handles a constructor made with new Redis(...)
    cleared     \* history: the physical keys whose expire time the last mset
                \* took away

vars == << namespace, ttl, db, gone, last, gen, client, conn, built, cleared >>

\* The handle the caller makes and passes in, and the one a store makes
Handles == { "h", "u1", "u2" }

NewHandle(s) == IF s = "s1" THEN "u1" ELSE "u2"

\* A constructed store, and one whose connection is ended: ioredis rejects
\* every command sent on an ended connection
Alive(s) == client[s] # "none"

Down(s) == conn[client[s]] # "open"

NoCall ==
    [ op |-> "none", st |-> "none", keys |-> <<>>, vals |-> <<>>,
      status |-> "ok", res |-> <<>>, src |-> <<>>, reqs |-> 0,
      fault |-> {}, berr |-> {} ]

\* A faulty test that never passes EX
TtlNever(t) == FALSE

\* if (this.ttl): null and 0 are falsy
TtlTruthy(t) == t # <<>> /\ t[1] # 0

\* ------------------------------------------------------------ backend ----

\* MGET: Redis refuses a command without keys; err is a connection failure
MgetFails(pks, err) == err \/ pks = <<>>

\* The reply of client.mget: null for a missing key, else the stored bytes
\* as a JS string
MgetReply(d, pks) ==
    [ i \in 1..Len(pks) |->
        IF pks[i] \in DOMAIN d THEN Some(Utf8Decode(d[pks[i]].val)) ELSE Absent ]

\* SET key value [EX seconds]: Redis refuses an expire time that is not
\* positive; failed holds the commands the backend fails for its own reasons
SetFails(cmd, i, failed) ==
    \/ i \in failed
    \/ cmd.ex # <<>> /\ cmd.ex[1] <= 0

\* pipeline.exec(): the queued commands run in order, each on its own; a
\* failed command leaves its key as it was and does not stop the others
RECURSIVE ExecSets(_, _, _, _)
ExecSets(d, cmds, failed, i) ==
    IF i > Len(cmds) THEN d
    ELSE LET c  == cmds[i]
             d1 == IF SetFails(c, i, failed) THEN d
                   ELSE [ k \in DOMAIN d \cup { c.key } |->
                            IF k = c.key
                            THEN [ val |-> c.val, ex |-> c.ex,
                                   by |-> c.by, lk |-> c.lk, arg |-> c.arg ]
                            ELSE d[k] ]
         IN  ExecSets(d1, cmds, failed, i + 1)

\* Faulty deletions: one that removes nothing, one that removes every key
DelKeepsAll(d, pks) == d

DelEverything(d, pks) == [ k \in {} |-> d[k] ]

\* DEL key [key ...]: missing keys are skipped
ExecDel(d, pks) == [ k \in DOMAIN d \ Range(pks) |-> d[k] ]

\* --------------------------------------------------------- operations ----

\* mget's map over the reply: null -> undefined, a string -> its latin1 bytes
MgetResult(reply) ==
    [ i \in 1..Len(reply) |->
        IF reply[i] = Absent THEN Absent ELSE Some(Latin1Encode(reply[i][1])) ]

PrefixedKeys(s, keys) == [ i \in 1..Len(keys) |-> PrefixKey(namespace[s], keys[i]) ]

\* History: a change of the backend marks every generator made before it
Touched(g, changed) ==
    [ e \in DOMAIN g |->
        IF changed /\ g[e].pc # "idle"
        THEN [ g[e] EXCEPT !.stable = FALSE ] ELSE g[e] ]

\* mget(keys); err: the MGET request fails on the connection
MGet(s, keys, err) ==
    LET pks   == PrefixedKeys(s, keys)
        cut   == err \/ Down(s)
        fails == MgetFails(pks, cut)
    IN  /\ Alive(s)
        /\ last' = [ op |-> "mget", st |-> s, keys |-> keys, vals |-> <<>>,
                     status |-> IF fails THEN "error" ELSE "ok",
                     res |-> IF fails THEN <<>> ELSE MgetResult(MgetReply(db, pks)),
                     src |-> IF fails THEN <<>>
                             ELSE [ i \in 1..Len(pks) |->
                                      IF pks[i] \in DOMAIN db THEN db[pks[i]].by
                                      ELSE "none" ],
                     reqs |-> 1,
                     fault |-> IF cut THEN { 1 } ELSE {},
                     berr |-> IF fails THEN { 1 } ELSE {} ]
        /\ UNCHANGED << namespace, ttl, db, gone, gen, client, conn, built, cleared >>

\* A faulty guard that lets an empty batch through
NeverEmpty(batch) == FALSE

\* keyValuePairs.length === 0, keys.length === 0: the early return of mset
\* and mdelete
IsEmptyBatch(batch) == Len(batch) = 0

\* The pipeline mset queues: one SET per pair, with EX when a ttl is set
SetCommands(s, pairs) ==
    [ i \in 1..Len(pairs) |->
        [ key |-> PrefixKey(namespace[s], pairs[i][1]),
          val |-> BufferFromBytes(pairs[i][2]),
          ex  |-> IF TtlTruthy(ttl[s]) THEN ttl[s] ELSE <<>>,
          by  |-> s, lk |-> pairs[i][1], arg |-> pairs[i][2] ] ]

\* mset(keyValuePairs); failed: the commands of the pipeline the backend fails
\* (on an ended connection: every one of them, each on its own)
MSet(s, pairs, failed) ==
    LET cmds == SetCommands(s, pairs)
        lost == IF Down(s) THEN 1..Len(pairs) ELSE failed
        bad  == { i \in 1..Len(cmds) : SetFails(cmds[i], i, lost) }
    IN  /\ Alive(s)
        /\ failed \subseteq 1..Len(pairs)
        /\ IF IsEmptyBatch(pairs)
           THEN /\ last' = [ NoCall EXCEPT !.op = "mset", !.st = s ]
                /\ UNCHANGED << db, gone, gen, cleared >>
           ELSE /\ db' = ExecSets(db, cmds, lost, 1)
                /\ gone' = {}
                /\ cleared' = { k \in DOMAIN db : db[k].ex # <<>> /\ db'[k].ex = <<>> }
                /\ gen' = Touched(gen, db' # db)
                /\ last' = [ op |-> "mset", st |-> s,
                             keys |-> [ i \in 1..Len(pairs) |-> pairs[i][1] ],
                             vals |-> [ i \in 1..Len(pairs) |-> pairs[i][2] ],
                             status |-> "ok", res |-> <<>>, src |-> <<>>,
                             reqs |-> 1, fault |-> lost, berr |-> bad ]
        /\ UNCHANGED << namespace, ttl, client, conn, built >>

\* mdelete(keys); err: the DEL request fails and deletes nothing
MDelete(s, keys, err) ==
    LET pks == PrefixedKeys(s, keys)
        cut == err \/ Down(s)
    IN  /\ Alive(s)
        /\ IF IsEmptyBatch(keys)
           THEN /\ ~err
                /\ last' = [ NoCall EXCEPT !.op = "mdelete", !.st = s ]
                /\ UNCHANGED << db, gone, gen >>
           ELSE /\ db' = IF cut THEN db ELSE ExecDel(db, pks)
                /\ gone' = IF cut THEN gone ELSE Range(pks) \cap DOMAIN db
                /\ gen' = Touched(gen, db' # db)
                /\ last' = [ op |-> "mdelete", st |-> s, keys |-> keys,
                             vals |-> <<>>,
                             status |-> IF cut THEN "error" ELSE "ok",
                             res |-> <<>>, src |-> <<>>, reqs |-> 1,
                             fault |-> IF cut THEN { 1 } ELSE {},
                             berr |-> IF cut THEN { 1 } ELSE {} ]
        /\ UNCHANGED << namespace, ttl, client, conn, built, cleared >>

\* The backend drops a key whose expire time has passed
Expire(pk) ==
    /\ pk \in DOMAIN db
    /\ db[pk].ex # <<>>
    /\ db' = [ k \in DOMAIN db \ { pk } |-> db[k] ]
    /\ gen' = Touched(gen, TRUE)
    /\ last' = [ NoCall EXCEPT !.op = "expire" ]
    /\ UNCHANGED << namespace, ttl, gone, client, conn, built, cleared >>

\* ---------------------------------------------------------- lifecycle ----

\* A faulty test that accepts a configuration without a backend
AnyBackend(cfg) == FALSE

\* if (!client && !redisUrl): an absent and an empty redisUrl are both falsy
NoBackend(cfg) ==
    /\ cfg.client = Absent
    /\ (cfg.redisUrl = Absent \/ ~Truthy(cfg.redisUrl[1]))

\* new RedisStore(cfg), cfg = [client, redisUrl, ttl, namespace]: throws
\* before anything is assigned, or keeps the caller's handle, or makes a
\* connection of its own from redisUrl
Construct(s, cfg) ==
    /\ ~Alive(s)
    /\ IF NoBackend(cfg)
       THEN /\ last' = [ NoCall EXCEPT !.op = "new", !.st = s, !.status = "error",
                                       !.vals = << cfg.client, cfg.redisUrl >> ]
            /\ UNCHANGED << namespace, ttl, client, conn, built >>
       ELSE LET given == cfg.client # Absent
                h     == IF given THEN cfg.client[1] ELSE NewHandle(s)
            IN  /\ client' = [ client EXCEPT ![s] = h ]
                /\ conn' = IF given THEN conn ELSE [ conn EXCEPT ![h] = "open" ]
                /\ built' = IF given THEN built ELSE built \cup { h }
                /\ ttl' = [ ttl EXCEPT ![s] = cfg.ttl ]
                /\ namespace' = [ namespace EXCEPT ![s] = cfg.namespace ]
                /\ last' = [ NoCall EXCEPT !.op = "new", !.st = s,
                                           !.vals = << cfg.client, cfg.redisUrl >> ]
    /\ UNCHANGED << db, gone, gen, cleared >>

\* How client.quit() can end: "ok" (QUIT answered, the connection ends),
\* "lost" (the connection breaks while QUIT is in flight: ioredis ends the
\* client without reconnecting and rejects), "refused" (the command is
\* rejected before it is written and the connection stays)
Outcomes == { "ok", "lost", "refused" }

\* close(): client.quit() on whatever handle the store holds; on an ended
\* connection quit is rejected
Close(s, outcome) ==
    LET h     == client[s]
        ended == conn[h] # "open"
    IN  /\ Alive(s)
        /\ conn' = IF ~ended /\ outcome \in { "ok", "lost" }
                   THEN [ conn EXCEPT ![h] = "closed" ] ELSE conn
        /\ last' = [ NoCall EXCEPT
                       !.op = "close", !.st = s, !.reqs = 1,
                       !.status = IF ~ended /\ outcome = "ok" THEN "ok" ELSE "error",
                       !.fault = IF ~ended /\ outcome = "ok" THEN {} ELSE { 1 } ]
        /\ UNCHANGED << namespace, ttl, db, gone, gen, client, built, cleared >>

\* --------------------------------------------------------------- scan ----

\* Redis' glob match (stringmatchlen) of a whole string against a pattern:
\* '*' any run of characters, '?' any one character, '\' takes the next
\* pattern character literally, anything else stands for itself.  (The
\* '[' class is left out: no string of this model contains '['.)
RECURSIVE GlobMatch(_, _)
GlobMatch(p, s) ==
    IF p = <<>> THEN s = <<>>
    ELSE IF p[1] = "*"
         THEN \E i \in 0..Len(s) : GlobMatch(Tail(p), Substring(s, i))
    ELSE IF s = <<>> THEN FALSE
    ELSE IF p[1] = "?" THEN GlobMatch(Tail(p), Tail(s))
    ELSE IF p[1] = "\\" /\ Len(p) >= 2
         THEN p[2] = s[1] /\ GlobMatch(Substring(p, 2), Tail(s))
    ELSE p[1] = s[1] /\ GlobMatch(Tail(p), Tail(s))

\* The match pattern yieldKeys computes; prefix is Absent (undefined) or
\* Some(string), and an empty string is falsy
ScanPattern(ns, prefix) ==
    LET fullPrefix == IF Truthy(ns) THEN ns \o Sep ELSE <<>>
    IN  IF prefix # Absent /\ Truthy(prefix[1])
        THEN fullPrefix \o prefix[1] \o <<"*">>
        ELSE fullPrefix \o <<"*">>

\* The logical keys and namespaces of the model, and every physical key they
\* can make, in one fixed order: the order in which the backend walks them
LogicalKeys == { <<"a">>, <<"a", ":", "a">> }

Namespaces ==
    { <<>>, <<"a">>, <<"b">>, <<"a", "b">>, <<"*">>, <<"\\">>, <<"a", ":", "a">> }

RECURSIVE SetToSeq(_)
SetToSeq(S) ==
    IF S = {} THEN <<>>
    ELSE LET x == CHOOSE y \in S : TRUE IN << x >> \o SetToSeq(S \ { x })

AllPhysical == SetToSeq({ PrefixKey(n, k) : n \in Namespaces, k \in LogicalKeys })

\* The places of the backend's walk in this configuration
InSpace(pk) == \E s \in Stores, k \in LogicalKeys : pk = PrefixKey(namespace[s], k)

Slots == SelectSeq(AllPhysical, InSpace)

\* Cursors are opaque strings; "0" starts and ends a walk
CursorNames == << "1", "2", "3", "4", "5", "6", "7", "8" >>

CursorAt(pos, n) == IF pos >= n THEN "0" ELSE CursorNames[pos]

\* The empty string as a cursor.  Redis ends a walk with "0" and nothing
\* else; a backend in the sense of the interface may end it with either
EmptyCursor == ""

PosOf(cursor) ==
    IF cursor \in { "0", EmptyCursor } THEN 0
    ELSE CHOOSE i \in DOMAIN CursorNames : CursorNames[i] = cursor

\* SCAN cursor MATCH pattern COUNT 100: the backend walks on from the cursor's
\* place up to a place of its choosing and returns the keys it holds there
\* that match, with the cursor of that place (after the last place: term,
\* the backend's terminal cursor)
ScanReply(d, cursor, pattern, upto, term) ==
    LET IsHit(pk) == pk \in DOMAIN d /\ GlobMatch(pattern, pk)
        next      == CursorAt(upto, Len(Slots))
    IN  [ cursor |-> IF next = "0" THEN term ELSE next,
          keys   |-> SelectSeq(SubSeq(Slots, PosOf(cursor) + 1, upto), IsHit) ]

\* SCAN with a cursor that is no number is refused ("invalid cursor")
ScanFails(cursor, err) == err \/ cursor = EmptyCursor

Enums == { "e1", "e2" }

\* A generator: pc is where its body stands ("created": not started, "scan":
\* about to ask for a page, "yield": handing out the page in hand, "done",
\* "failed", "returned": ended by the consumer), cursor and keys are its local
\* variables, out is what it has yielded; seen (every key the pages brought),
\* from and stable are history
Idle ==
    [ pc |-> "idle", st |-> "none", prefix |-> Absent, pattern |-> <<>>,
      cursor |-> "0", keys |-> <<>>, out |-> <<>>, seen |-> <<>>,
      from |-> {}, stable |-> TRUE ]

\* A faulty cursor kept in one place for every generator
SharedCursor(g, e) == g["e1"].cursor

\* let cursor = "0": a variable of the generator's own invocation
CursorOf(g, e) == g[e].cursor

\* A faulty generator that asks for pages wherever it stands
AsksAnywhere(pc) == pc \in { "created", "scan", "yield", "returned" }

\* The places where a generator's next step is a page request
AsksNext(pc) == pc \in { "created", "scan" }

ScanCall(s) == [ NoCall EXCEPT !.op = "scan", !.st = s ]

\* yieldKeys(prefix): the call makes the generator object; its body has not
\* run yet
YieldKeys(e, s, prefix) ==
    /\ Alive(s)
    /\ gen[e].pc \in { "idle", "done", "failed", "returned" }
    /\ gen' = [ gen EXCEPT ![e] =
                  [ Idle EXCEPT !.pc = "created", !.st = s, !.prefix = prefix ] ]
    /\ last' = ScanCall(s)
    /\ UNCHANGED << namespace, ttl, db, gone, client, conn, built, cleared >>

\* A faulty loop test that goes on after the terminal cursor
AfterPageNoStop(keys, cursor) == IF keys # <<>> THEN "yield" ELSE "scan"

\* Where the generator stands once the page in hand is used up
AfterPage(keys, cursor) ==
    IF keys # <<>> THEN "yield" ELSE IF cursor # "0" THEN "scan" ELSE "done"

\* One client.scan round trip of the do-while loop (the first one also runs
\* the lines before the loop); err: the request fails and the generator
\* throws; term: the cursor the backend ends its walk with
ScanPage(e, upto, err, term) ==
    LET g       == gen[e]
        pattern == IF g.pc = "created"
                   THEN ScanPattern(namespace[g.st], g.prefix) ELSE g.pattern
        sent    == CursorOf(gen, e)
        cut     == ScanFails(sent, err \/ Down(g.st))
        reply   == ScanReply(db, sent, pattern, upto, term)
    IN  /\ AsksNext(g.pc)
        /\ upto \in (PosOf(sent) + 1)..Len(Slots)
        /\ gen' = [ gen EXCEPT ![e] =
                      IF cut
                      THEN [ g EXCEPT !.pc = "failed", !.pattern = pattern ]
                      ELSE [ g EXCEPT !.pc = AfterPage(reply.keys, reply.cursor),
                                      !.pattern = pattern,
                                      !.cursor = reply.cursor,
                                      !.keys = reply.keys,
                                      !.seen = @ \o reply.keys,
                                      !.from = @ \cup { db[k].by : k \in Range(reply.keys) } ] ]
        /\ last' = [ ScanCall(g.st) EXCEPT
                       !.keys = << sent >>, !.reqs = 1,
                       !.status = IF cut THEN "error" ELSE "ok",
                       !.res = IF cut THEN <<>> ELSE << reply.cursor >>,
                       !.fault = IF cut THEN { 1 } ELSE {} ]
        /\ UNCHANGED << namespace, ttl, db, gone, client, conn, built, cleared >>

\* The consumer takes the next key of the page in hand
Yield(e) ==
    LET g == gen[e]
    IN  /\ g.pc = "yield"
        /\ gen' = [ gen EXCEPT ![e] =
                      [ g EXCEPT !.out = Append(@, StripKey(namespace[g.st], Head(g.keys))),
                                 !.keys = Tail(@),
                                 !.pc = AfterPage(Tail(g.keys), g.cursor) ] ]
        /\ last' = ScanCall(g.st)
        /\ UNCHANGED << namespace, ttl, db, gone, client, conn, built, cleared >>

\* The consumer stops before the end (break, or return() on the generator):
\* the generator ends where it stands
Abandon(e) ==
    /\ gen[e].pc \in { "created", "scan", "yield" }
    /\ gen' = [ gen EXCEPT ![e].pc = "returned" ]
    /\ last' = ScanCall(gen[e].st)
    /\ UNCHANGED << namespace, ttl, db, gone, client, conn, built, cleared >>

\* ------------------------------------------------------ specifications ----

EmptyDb == [ k \in {} |-> Absent ]

\* The state after construction of the two stores on the caller's handle,
\* for a set of configurations [n1, n2: namespaces, t1, t2: ttls]
InitWith(configs) ==
    /\ \E c \in configs :
         /\ namespace = [ s \in Stores |-> IF s = "s1" THEN c.n1 ELSE c.n2 ]
         /\ ttl = [ s \in Stores |-> IF s = "s1" THEN c.t1 ELSE c.t2 ]
    /\ db = EmptyDb
    /\ gone = {}
    /\ last = NoCall
    /\ gen = [ e \in Enums |-> Idle ]
    /\ client = [ s \in Stores |-> "h" ]
    /\ conn = [ h \in Handles |-> IF h = "h" THEN "open" ELSE "none" ]
    /\ built = {}
    /\ cleared = {}

\* Sequences over S of length at most n
SeqsUpTo(S, n) == UNION { [ 1..m -> S ] : m \in 0..n }

MaxBatch == 2

\* The key-value operations of one store
KeysKV == LogicalKeys

ValuesKV == { <<>>, <<97, 195, 169>> }

ConfigsKV ==
    { [ n1 |-> <<"a">>, n2 |-> <<"b">>, t1 |-> <<>>, t2 |-> <<>> ],
      [ n1 |-> <<>>,    n2 |-> <<"b">>, t1 |-> << 5 >>, t2 |-> <<>> ],
      [ n1 |-> <<"a">>, n2 |-> <<"b">>, t1 |-> << -1 >>, t2 |-> <<>> ] }

Init == InitWith(ConfigsKV)

Next ==
    \/ \E keys \in SeqsUpTo(KeysKV, MaxBatch), err \in BOOLEAN :
         MGet("s1", keys, err)
    \/ \E pairs \in SeqsUpTo(KeysKV \X ValuesKV, MaxBatch),
          failed \in SUBSET (1..MaxBatch) :
         MSet("s1", pairs, failed)
    \/ \E keys \in SeqsUpTo(KeysKV, MaxBatch), err \in BOOLEAN :
         MDelete("s1", keys, err)
    \/ \E pk \in DOMAIN db : Expire(pk)

Spec == Init /\ [][Next]_vars

\* Key translation on its own: a logical key is turned into its physical
\* key as _prefixKey does and back as the loop of yieldKeys does
KeyRoundTrip(s, key) ==
    /\ last' = [ NoCall EXCEPT
                   !.op = "translate", !.st = s, !.keys = << key >>,
                   !.res = << PrefixKey(namespace[s], key),
                              StripKey(namespace[s], PrefixKey(namespace[s], key)) >> ]
    /\ UNCHANGED << namespace, ttl, db, gone, gen, client, conn, built, cleared >>

MaxKeyLen == 2

Alphabet == { "a", ":", "*", "\\" }

Strings == SeqsUpTo(Alphabet, MaxKeyLen)

InitKeys ==
    InitWith({ [ n1 |-> n, n2 |-> <<"b">>, t1 |-> <<>>, t2 |-> <<>> ] : n \in Strings })

NextKeys == \E key \in Strings : KeyRoundTrip("s1", key)

SpecKeys == InitKeys /\ [][NextKeys]_vars

\* Two stores on one backend: single-key calls and paged scans
ValuesScan == { <<97>> }

Singles(K, V) == { << << k, v >> >> : k \in K, v \in V }

SingleKeys(K) == { << k >> : k \in K }

NamespacePairs(pairs) ==
    { [ n1 |-> c[1], n2 |-> c[2], t1 |-> <<>>, t2 |-> <<>> ] : c \in pairs }

ConfigsIso ==
    NamespacePairs({ << <<"a">>, <<"b">> >>,
                     << <<"a">>, <<"a", "b">> >>,
                     << <<>>, <<"a">> >>,
                     << <<"*">>, <<"a">> >>,
                     << <<"a">>, <<"a", ":", "a">> >> })

PrefixesIso == { Absent, Some(<<"*">>) }

InitIso == InitWith(ConfigsIso)

NextIso ==
    \/ \E s \in Stores, keys \in SingleKeys(LogicalKeys) : MGet(s, keys, FALSE)
    \/ \E s \in Stores, pairs \in Singles(LogicalKeys, ValuesScan) : MSet(s, pairs, {})
    \/ \E s \in Stores, keys \in SingleKeys(LogicalKeys) : MDelete(s, keys, FALSE)
    \/ \E s \in Stores, prefix \in PrefixesIso : YieldKeys("e1", s, prefix)
    \/ \E upto \in 1..Len(Slots) : ScanPage("e1", upto, FALSE, "0")
    \/ Yield("e1")

SpecIso == InitIso /\ [][NextIso]_vars

\* One store: writes, deletes and paged scans with a prefix, with failures
ConfigsScan ==
    NamespacePairs({ << <<"a">>, <<"b">> >>,
                     << <<>>, <<"b">> >>,
                     << <<"\\">>, <<"b">> >> })

PrefixesScan == { Absent, Some(<<>>), Some(<<"a", ":">>), Some(<<"*">>) }

InitScan == InitWith(ConfigsScan)

NextScan ==
    \/ \E pairs \in Singles(LogicalKeys, ValuesScan) : MSet("s1", pairs, {})
    \/ \E keys \in SingleKeys(LogicalKeys) : MDelete("s1", keys, FALSE)
    \/ \E prefix \in PrefixesScan : YieldKeys("e1", "s1", prefix)
    \/ \E upto \in 1..Len(Slots), err \in BOOLEAN : ScanPage("e1", upto, err, "0")
    \/ Yield("e1")

SpecScan == InitScan /\ [][NextScan]_vars

\* One store, two generators consumed in any interleaving, each of which the
\* consumer may leave before its end
ConfigsWalk == NamespacePairs({ << <<"a">>, <<"b">> >> })

PrefixesWalk == { Absent, Some(<<"a", ":">>) }

InitWalk == InitWith(ConfigsWalk)

NextWalk ==
    \/ \E pairs \in Singles(LogicalKeys, ValuesScan) : MSet("s1", pairs, {})
    \/ \E e \in Enums, prefix \in PrefixesWalk : YieldKeys(e, "s1", prefix)
    \/ \E e \in Enums, upto \in 1..Len(Slots) : ScanPage(e, upto, FALSE, "0")
    \/ \E e \in Enums : Yield(e)
    \/ \E e \in Enums : Abandon(e)

SpecWalk == InitWalk /\ [][NextWalk]_vars

\* One store and one generator on a backend that ends its walk with either
\* terminal cursor
Terminals == { "0", EmptyCursor }

InitCursor == InitWith(ConfigsWalk)

NextCursor ==
    \/ \E pairs \in Singles(LogicalKeys, ValuesScan) : MSet("s1", pairs, {})
    \/ YieldKeys("e1", "s1", Absent)
    \/ \E upto \in 1..Len(Slots), term \in Terminals : ScanPage("e1", upto, FALSE, term)
    \/ Yield("e1")

SpecCursor == InitCursor /\ [][NextCursor]_vars

\* Construction, use and close of two stores that may share the caller's
\* handle, a namespace and differ in their expiry
KeysLife == { <<"a">> }

ConfigsLife ==
    [ client : { Absent, Some("h") },
      redisUrl : { Absent, Some(<<>>), Some(<<"u">>) },
      ttl : { <<>>, << 5 >> },
      namespace : { <<"a">> } ]

InitLife ==
    /\ namespace = [ s \in Stores |-> <<>> ]
    /\ ttl = [ s \in Stores |-> <<>> ]
    /\ db = EmptyDb
    /\ gone = {}
    /\ last = NoCall
    /\ gen = [ e \in Enums |-> Idle ]
    /\ client = [ s \in Stores |-> "none" ]
    /\ conn = [ h \in Handles |-> IF h = "h" THEN "open" ELSE "none" ]
    /\ built = {}
    /\ cleared = {}

NextLife ==
    \/ \E s \in Stores, cfg \in ConfigsLife : Construct(s, cfg)
    \/ \E s \in Stores, keys \in SingleKeys(KeysLife) : MGet(s, keys, FALSE)
    \/ \E s \in Stores, pairs \in Singles(KeysLife, ValuesScan) : MSet(s, pairs, {})
    \/ \E s \in Stores, keys \in SingleKeys(KeysLife) : MDelete(s, keys, FALSE)
    \/ \E pk \in DOMAIN db : Expire(pk)
    \/ \E s \in Stores, outcome \in Outcomes : Close(s, outcome)

SpecLife == InitLife /\ [][NextLife]_vars

\* ------------------------------------------------- key-value claims ----

\* The physical key of the i-th key of the last call
LastPk(i) == PrefixKey(namespace[last.st], last.keys[i])

\* C2: on a store with no expiry, a key that holds what mset wrote for it
\* (nothing wrote or deleted it since) is read back by mget byte for byte.
C2_WriteThenRead ==
    (last.op = "mget" /\ last.status = "ok" /\ ttl[last.st] = <<>>)
    => \A i \in DOMAIN last.keys :
         (/\ LastPk(i) \in DOMAIN db
          /\ db[LastPk(i)].by = last.st
          /\ db[LastPk(i)].lk = last.keys[i])
         => last.res[i] = Some(db[LastPk(i)].arg)

\* C3: a key that mset had written and the last mdelete removed, with no
\* mset or mdelete reaching the backend since, is absent for mget; and an
\* mdelete whose request reaches the backend succeeds whether or not its
\* keys exist.
C3_DeleteRemoves ==
    /\ (last.op = "mget" /\ last.status = "ok")
       => \A i \in DOMAIN last.keys :
            LastPk(i) \in gone => last.res[i] = Absent
    /\ (last.op = "mdelete" /\ last.fault = {}) => last.status = "ok"

C3_Witness ==
    /\ last.op = "mget"
    /\ last.status = "ok"
    /\ \E i \in DOMAIN last.keys : LastPk(i) \in gone /\ last.res[i] = Absent

\* C4: whenever its request is not cut by the connection, mget returns,
\* for any sequence of keys, one element per key in order: the stored value
\* or absent.
C4_GetManyTotal ==
    (last.op = "mget" /\ last.fault = {})
    => /\ last.status = "ok"
       /\ Len(last.res) = Len(last.keys)
       /\ \A i \in DOMAIN last.keys :
            last.res[i] = IF LastPk(i) \in DOMAIN db
                          THEN Some(db[LastPk(i)].val) ELSE Absent

\* C5: every mset or mdelete step with an empty argument sends nothing to
\* the backend, leaves the backend as it was and succeeds.
C5_EmptyBatchNoRequest ==
    [][ (last'.op \in { "mset", "mdelete" } /\ last'.keys = <<>>)
        => (last'.reqs = 0 /\ last'.status = "ok" /\ db' = db) ]_vars

C5_Witness ==
    /\ last.op = "mset"
    /\ last.keys = <<>>
    /\ last.reqs = 0
    /\ DOMAIN db # {}

\* C9: an mset in which the backend failed a SET reports failure.
C9_PartialFailureReported ==
    (last.op = "mset" /\ last.berr # {}) => last.status = "error"

\* C10: every mget, non-empty mset and non-empty mdelete sends one request,
\* and a call whose request (or a command of it) failed ends in failure.
C10_FailuresPropagate ==
    last.op \in { "mget", "mset", "mdelete" }
    => /\ (last.op = "mget" \/ last.keys # <<>>) => last.reqs = 1
       /\ last.berr # {} => last.status = "error"

\* ------------------------------------------------------- scan claims ----

\* What a store sees came from itself: every value its last mget returned
\* and every key a page gave one of its generators was written through it
SeesOnlyItsOwn ==
    /\ (last.op = "mget" /\ last.status = "ok")
       => \A i \in DOMAIN last.src : last.src[i] \in { "none", last.st }
    /\ \A e \in Enums : gen[e].from \subseteq { gen[e].st }

\* The characters Redis' glob match gives a meaning to
GlobMeta == { "*", "?", "[", "\\" }

PlainNamespace(ns) ==
    /\ ns # <<>>
    /\ \A i \in DOMAIN ns : ns[i] # ":" /\ ns[i] \notin GlobMeta

\* C1 as stated: two stores with different namespaces never see each
\* other's keys, neither by mget nor by yieldKeys.
C1_Isolation ==
    namespace["s1"] # namespace["s2"] => SeesOnlyItsOwn

\* C1 as amended: the same for different namespaces that are not empty and
\* hold neither the separator ':' nor a glob character.
C1_IsolationPlain ==
    (/\ namespace["s1"] # namespace["s2"]
     /\ PlainNamespace(namespace["s1"])
     /\ PlainNamespace(namespace["s2"]))
    => SeesOnlyItsOwn

C1_Witness ==
    /\ namespace["s1"] # namespace["s2"]
    /\ PlainNamespace(namespace["s1"])
    /\ PlainNamespace(namespace["s2"])
    /\ \E pk \in DOMAIN db : db[pk].by = "s2"
    /\ gen["e1"].pc = "done"
    /\ gen["e1"].st = "s1"
    /\ gen["e1"].prefix = Some(<<"*">>)
    /\ gen["e1"].stable
    /\ gen["e1"].out # <<>>

\* C6: for a non-empty namespace N and a key K without ':', the physical
\* key is N + ':' + K and stripping it gives K back.
C6_KeyRoundTrip ==
    (/\ last.op = "translate"
     /\ namespace[last.st] # <<>>
     /\ ":" \notin Range(last.keys[1]))
    => /\ last.res[1] = namespace[last.st] \o <<":">> \o last.keys[1]
       /\ last.res[2] = last.keys[1]

C6_Witness ==
    /\ last.op = "translate"
    /\ Len(namespace[last.st]) = 2
    /\ Len(last.keys[1]) = 2
    /\ ":" \notin Range(last.keys[1])
    /\ last.res[2] = last.keys[1]

\* The logical keys written through store s that the backend holds
Written(s) == { db[pk].lk : pk \in { k \in DOMAIN db : db[k].by = s } }

\* C7: a yieldKeys() walk that ran to its end over an unchanged backend has
\* yielded every key written through its store.
C7_ScanComplete ==
    \A e \in Enums :
      (gen[e].pc = "done" /\ gen[e].stable /\ gen[e].prefix = Absent)
      => Written(gen[e].st) \subseteq Range(gen[e].out)

\* C8: on a store whose namespace holds no glob character, a yieldKeys(P)
\* walk that ran to its end over an unchanged backend has yielded exactly
\* the written keys that start with P.
C8_PrefixFilter ==
    \A e \in Enums :
      (/\ gen[e].pc = "done"
       /\ gen[e].stable
       /\ gen[e].prefix # Absent
       /\ \A i \in DOMAIN namespace[gen[e].st] :
            namespace[gen[e].st][i] \notin GlobMeta)
      => Range(gen[e].out)
           = { k \in Written(gen[e].st) : StartsWith(k, gen[e].prefix[1]) }

\* -------------------------------------------------- lifecycle claims ----

\* C11: a constructor call given neither a handle nor a (non-empty) redisUrl
\* fails, leaves the store unconstructed and touches neither a connection nor
\* the backend; given a handle, a redisUrl or both it makes the store.
C11_EagerConfigCheck ==
    [][ last'.op = "new"
        => LET s       == last'.st
               neither == /\ last'.vals[1] = Absent
                          /\ last'.vals[2] \in { Absent, Some(<<>>) }
           IN  /\ neither => /\ last'.status = "error"
                             /\ client'[s] = "none"
                             /\ last'.reqs = 0
                             /\ conn' = conn
                             /\ db' = db
               /\ ~neither => /\ last'.status = "ok"
                              /\ client'[s] # "none" ]_vars

C11_Witness ==
    /\ last.op = "new"
    /\ last.vals = << Absent, Absent >>
    /\ last.status = "error"
    /\ client[last.st] = "none"

\* An expiry policy: none, or a positive number of seconds
ValidExpiry(t) == t = <<>> \/ t[1] >= 1

\* C12: the ttl of a constructed store never changes, and every SET of an
\* mset that the backend carried out leaves its key with exactly the store's
\* expiry: that many seconds, or none at all, whatever the key had before.
C12_UniformExpiry ==
    [][ /\ \A s \in Stores : client[s] # "none" => ttl'[s] = ttl[s]
        /\ (last'.op = "mset" /\ ValidExpiry(ttl[last'.st]))
           => \A i \in DOMAIN last'.keys :
                i \notin last'.berr
                => LET pk == PrefixKey(namespace[last'.st], last'.keys[i])
                   IN  pk \in DOMAIN db' /\ db'[pk].ex = ttl[last'.st] ]_vars

C12_Witness ==
    /\ last.op = "mset"
    /\ ttl[last.st] = <<>>
    /\ cleared # {}
    /\ \A k \in cleared : k \in DOMAIN db /\ db[k].ex = <<>>

\* C13: a handle the caller supplied (one no constructor made) is never
\* closed by the stores.
C13_BorrowedStayOpen ==
    \A h \in Handles \ built : conn[h] # "closed"

\* C14: a store is open once constructed; it stops being open only in a
\* step that is its own close() succeeding; a close() that fails leaves it as
\* it was; and once closed it never is open again.
C14_Lifecycle ==
    [][ \A s \in Stores :
          /\ (client[s] = "none" /\ client'[s] # "none")
             => conn'[client'[s]] = "open"
          /\ client[s] # "none"
             => /\ client'[s] = client[s]
                /\ (conn[client[s]] = "open" /\ conn'[client[s]] # "open")
                   => (last'.op = "close" /\ last'.st = s /\ last'.status = "ok")
                /\ (last'.op = "close" /\ last'.st = s /\ last'.status = "error")
                   => conn'[client[s]] = conn[client[s]]
                /\ conn[client[s]] = "closed" => conn'[client[s]] = "closed" ]_vars

\* -------------------------------------------------- generator claims ----

\* The step is a page request of generator e
Asks(e) == gen'[e] # gen[e] /\ last'.op = "scan" /\ last'.reqs = 1

\* The step is a yieldKeys call that makes generator e anew
Starts(e) == gen[e].pc \notin { "created", "scan", "yield" } /\ gen'[e].pc = "created"

\* C15: a generator's first page request carries "0" and every later one
\* the cursor of the reply before it; it asks for no page once a reply
\* carried "0"; it leaves its start only by a page request; and when it is
\* done it has yielded every key of every page it received.
C15_CursorProtocol ==
    [][ \A e \in Enums :
          LET g  == gen[e]
              g2 == gen'[e]
          IN  /\ Asks(e)
                 => /\ last'.keys[1] = IF g.pc = "created" THEN "0" ELSE g.cursor
                    /\ g.pc = "created" \/ g.cursor # "0"
                    /\ last'.status = "ok"
                       => /\ g2.cursor = last'.res[1]
                          /\ g2.seen = g.seen \o g2.keys
              /\ (~Asks(e) /\ ~Starts(e)) => g2.cursor = g.cursor
              /\ (g.pc \in { "idle", "created" }
                    /\ g2.pc \in { "scan", "yield", "done", "failed" })
                 => (g.pc = "created" /\ Asks(e))
              /\ g2.pc = "done"
                 => (g2.cursor = "0" /\ Len(g2.out) = Len(g2.seen)) ]_vars

C15_Witness ==
    /\ last.op = "scan"
    /\ last.reqs = 1
    /\ last.status = "ok"
    /\ last.keys[1] # "0"
    /\ gen["e1"].cursor = "0"
    /\ gen["e1"].keys # <<>>
    /\ gen["e1"].out # <<>>

\* What generator e yields when it walks the backend as it is, alone
AloneYield(e) ==
    LET g         == gen[e]
        IsHit(pk) == pk \in DOMAIN db /\ GlobMatch(g.pattern, pk)
        hits      == SelectSeq(Slots, IsHit)
    IN  [ i \in 1..Len(hits) |-> StripKey(namespace[g.st], hits[i]) ]

\* C16: every yieldKeys call starts at "0" with nothing yielded; a
\* generator's request carries "0" or the cursor of its own last reply, and
\* no step of another generator changes its cursor; and a generator that
\* ran to its end over an unchanged backend has yielded what it yields alone.
C16_Independent ==
    [][ \A e \in Enums :
          LET g  == gen[e]
              g2 == gen'[e]
          IN  /\ Starts(e)
                 => (g2.cursor = "0" /\ g2.out = <<>> /\ g2.seen = <<>> /\ g2.keys = <<>>)
              /\ Asks(e)
                 => last'.keys[1] = IF g.pc = "created" THEN "0" ELSE g.cursor
              /\ (~Asks(e) /\ ~Starts(e)) => g2.cursor = g.cursor
              /\ (g2.pc = "done" /\ g2.stable) => g2.out = AloneYield(e)' ]_vars

C16_Witness ==
    /\ gen["e1"].pc = "done"
    /\ gen["e1"].stable
    /\ gen["e1"].out # <<>>
    /\ gen["e2"].pc \in { "scan", "yield" }
    /\ gen["e2"].cursor # "0"
    /\ gen["e2"].out # <<>>

\* A scanned key as it is to be yielded: without the leading namespace and
\* ':' when there is a namespace and the key starts with them, else as it is
Unprefixed(ns, key) ==
    IF /\ ns # <<>>
       /\ Len(key) >= Len(ns) + 1
       /\ SubSeq(key, 1, Len(ns) + 1) = ns \o <<":">>
    THEN SubSeq(key, Len(ns) + 2, Len(key))
    ELSE key

\* C17: what a generator has yielded is, element by element and in order,
\* the keys its pages brought, each without its namespace part or as it is;
\* the keys not yet yielded are the rest of the page in hand, and none is
\* left when the generator is done.
C17_DropsNothing ==
    \A e \in Enums :
      LET g == gen[e]
      IN  g.pc # "idle"
          => /\ Len(g.seen) = Len(g.out) + Len(g.keys)
             /\ \A i \in 1..Len(g.out) :
                  g.out[i] = Unprefixed(namespace[g.st], g.seen[i])
             /\ \A i \in 1..Len(g.keys) : g.keys[i] = g.seen[Len(g.out) + i]
             /\ g.pc = "done" => g.keys = <<>>

C17_Witness ==
    /\ gen["e1"].pc = "done"
    /\ namespace[gen["e1"].st] # <<>>
    /\ \E i \in 1..Len(gen["e1"].out) : gen["e1"].out[i] = gen["e1"].seen[i]
    /\ \E i \in 1..Len(gen["e1"].out) : gen["e1"].out[i] # gen["e1"].seen[i]

\* C18: once a reply carried a terminal cursor, "0" or the empty one, the
\* generator asks for no further page, and it is done when that reply's
\* page is used up.
C18_TerminalCursor ==
    [][ \A e \in Enums :
          /\ Asks(e) => (gen[e].pc = "created" \/ gen[e].cursor \notin Terminals)
          /\ (gen'[e].pc \in { "scan", "yield", "done" }
                /\ gen'[e].cursor \in Terminals /\ gen'[e].keys = <<>>)
             => gen'[e].pc = "done" ]_vars

\* C19: a yieldKeys call sends no request; a page request is sent only by a
\* generator that has handed out every key it received; and a generator the
\* consumer has left sends none.
C19_Lazy ==
    [][ \A e \in Enums :
          /\ Starts(e) => (last'.reqs = 0 /\ gen'[e].seen = <<>>)
          /\ Asks(e)
             => /\ gen[e].pc \in { "created", "scan" }
                /\ gen[e].keys = <<>>
                /\ Len(gen[e].out) = Len(gen[e].seen)
          /\ gen[e].pc = "returned" => ~Asks(e) ]_vars

C19_Witness ==
    /\ gen["e1"].pc = "returned"
    /\ gen["e1"].cursor # "0"
    /\ gen["e1"].out # <<>>

\* C20: mget and the steps of yieldKeys leave the backend as it is; mset and
\* mdelete leave every physical key other than those of their arguments as
\* it is, present or absent, and mdelete adds none.
C20_Frame ==
    [][ /\ last'.op \in { "mget", "scan" } => db' = db
        /\ last'.op \in { "mset", "mdelete" }
           => LET own == { PrefixKey(namespace[last'.st], last'.keys[i]) :
                             i \in DOMAIN last'.keys }
              IN  \A pk \in (DOMAIN db \cup DOMAIN db') \ own :
                    /\ pk \in DOMAIN db
                    /\ pk \in DOMAIN db'
                    /\ db'[pk] = db[pk]
        /\ last'.op = "mdelete" => DOMAIN db' \subseteq DOMAIN db ]_vars

C20_Witness ==
    /\ last.op = "mdelete"
    /\ last.status = "ok"
    /\ gone # {}
    /\ \E pk \in DOMAIN db : db[pk].by # last.st
====
